---- MODULE Spec2Model ----
(***************************************************************************)
(* Model of the retrieval core of ragrail: the chunker and type detection  *)
(* of modules/embedder.py, the session-scoped vector store of              *)
(* modules/chromadb_store.py and the retriever of modules/retriever.py.    *)
(*                                                                         *)
(* Strings.  A single-line Python string is a TLA+ string; a multi-line    *)
(* string is the sequence of its lines (code.split('\n') and               *)
(* '\n'.join(...) are the two directions of that reading).  len() is Len.  *)
(* str.strip, str.lower, the substring test and re.match are tabulated on  *)
(* the finite alphabet of lines the model draws its inputs from.           *)
(***************************************************************************)
EXTENDS Integers, Sequences, FiniteSets, TLC

VARIABLES
    \* ---- CodeEmbedder.smart_chunk_code (one call in progress)
    lines,            \* code.split('\n')
    filename,         \* the filename argument
    max_chunk_size,   \* the max_chunk_size argument
    i,                \* number of loop iterations completed (enumerate index)
    current_chunk,    \* buffer of lines
    current_size,     \* running character count of the buffer
    chunks,           \* chunks emitted so far
    pc,               \* "idle" | "loop" | "done"
    \* ---- CodeEmbedder._detect_chunk_type (one call)
    code,             \* the text handed to _detect_chunk_type
    chunk_type,       \* its result, "none" before the call
    \* ---- CodeVectorStore
    collection,       \* the persisted records, in insertion order
    uuid_count,       \* how many ids uuid.uuid4() has produced
    result,           \* the last completed call: its arguments and outcome
    \* ---- CodeRetriever.retrieve_relevant_chunks (one call in progress)
    r_pc,             \* "idle" | "start" | "loop" | "done" | "formatted"
    r_query,          \* the query argument
    r_session,        \* the session_id argument
    r_max,            \* the max_chunks argument
    r_env,            \* whether the vector store and the embedder can be obtained
    enhanced_queries, \* the result of enhance_query
    r_k,              \* how many variants the loop has searched
    all_chunks,       \* unique chunks collected so far
    seen_chunks,      \* their keys
    r_log,            \* the searches issued, in order
    r_fault,          \* the failures that happened during the call
    r_ret,            \* outcome and value of the call once it has ended
    context,          \* format_context_for_ai of the returned chunks, "none" before
    \* ---- CodeEmbedder.process_uploaded_files / embed_chunks (one call)
    u_pc,             \* "idle" | "files" | "chunking" | "embed" | "done"
    files_data,       \* the files_data argument
    u_idx,            \* how many files the loop has handled
    u_all_chunks,     \* all_chunks of process_uploaded_files / chunks of embed_chunks
    u_env,            \* at which text the embedding backend fails (0: it works)
    u_ret,            \* outcome and value of the call once it has ended
    \* ---- get_embedder / get_vector_store (threads of one process)
    g_instance,       \* the module globals _embedder and _vector_store (0: None)
    g_made,           \* how many CodeEmbedder / CodeVectorStore were constructed
    t_fn,             \* per thread: the getter it calls
    t_pc,             \* per thread: "check" | "construct" | "assign" | "return" | "done" | "raised"
    t_new,            \* per thread: the instance it has constructed (0: none)
    t_ret             \* per thread: the instance returned to it (0: none yet)

chunkVars == <<lines, filename, max_chunk_size, i, current_chunk, current_size, chunks, pc>>
typeVars == <<code, chunk_type>>
storeVars == <<collection, uuid_count, result>>
retrVars == <<r_pc, r_query, r_session, r_max, r_env, enhanced_queries, r_k, all_chunks,
              seen_chunks, r_log, r_fault, r_ret, context>>
uploadVars == <<u_pc, files_data, u_idx, u_all_chunks, u_env, u_ret>>
singletonVars == <<g_instance, g_made, t_fn, t_pc, t_new, t_ret>>
vars == <<lines, filename, max_chunk_size, i, current_chunk, current_size, chunks, pc,
          code, chunk_type, collection, uuid_count, result,
          r_pc, r_query, r_session, r_max, r_env, enhanced_queries, r_k, all_chunks,
          seen_chunks, r_log, r_fault, r_ret, context,
          u_pc, files_data, u_idx, u_all_chunks, u_env, u_ret,
          g_instance, g_made, t_fn, t_pc, t_new, t_ret>>

----------------------------------------------------------------------------
(* Bounds *)

MaxLines == 4
MaxBatch == 2      \* chunks per store_chunks call
MaxFiles == 2      \* files per process_uploaded_files call
MaxThreads == 2    \* threads that call a getter
MaxStored == 3     \* records in the collection

----------------------------------------------------------------------------
(* Python string primitives on the line alphabet *)

Short == "x = 1;"
Long36 == "total = compute(alpha, beta, gamma);"
Long60 == "result = combine(first(alpha), second(beta), third(gamma)).x"
FooHead == "function Foo(){"
BarHead == "const Bar = () => {"

\* The lines the chunker's inputs are drawn from: empty, whitespace-only,
\* short and long code lines, a hook call, an indented block start.
LineAlphabet == {"", "   ", "}", Short, "useEffect(run);", "  function Foo(){"}

\* The substrings _detect_chunk_type looks for.
Keywords ==
    {"useeffect", "usestate", "function", "component", "class", "extends",
     "interface", "type", "export", "import"}

\* One line per keyword, written as it would appear in source (mixed case).
KeywordLine(kw) ==
    CASE kw = "useeffect" -> "useEffect"
      [] kw = "usestate" -> "useState"
      [] kw = "component" -> "Component"
      [] kw = "interface" -> "Interface"
      [] OTHER -> kw

\* str.strip()
Strip(s) ==
    CASE s = "   " -> ""
      [] s = "  function Foo(){" -> FooHead
      [] OTHER -> s

\* str.lower()
Lower(s) ==
    CASE s = "useEffect(run);" -> "useeffect(run);"
      [] s = "why does useEffect cause infinite loop" -> "why does useeffect cause infinite loop"
      [] s = "useState render" -> "usestate render"
      [] s = "useEffect useState infinite render interface"
            -> "useeffect usestate infinite render interface"
      [] s = "useEffect hook" -> "useeffect hook"
      [] s = "useEffect infinite loop" -> "useeffect infinite loop"
      [] s = "why does useEffect loop" -> "why does useeffect loop"
      [] s = "App.tsx" -> "app.tsx"
      [] s = "useEffectInfiniteLoop.js" -> "useeffectinfiniteloop.js"
      [] s = "  function Foo(){" -> "  function foo(){"
      [] s = FooHead -> "function foo(){"
      [] s = BarHead -> "const bar = () => {"
      [] s = "useEffect" -> "useeffect"
      [] s = "useState" -> "usestate"
      [] s = "Component" -> "component"
      [] s = "Interface" -> "interface"
      [] OTHER -> s

\* The (needle, haystack) pairs with `needle in haystack`, for the words of
\* the queries against the lowercased queries, filenames and document lines.
SubstringPairs ==
    {<<"cause", "why does useeffect cause infinite loop">>,
     <<"date", "format date">>,
     <<"does", "why does useeffect cause infinite loop">>,
     <<"does", "why does useeffect loop">>,
     <<"format", "format date">>,
     <<"generic", "generic type">>,
     <<"hook", "useeffect hook">>,
     <<"infinite", "why does useeffect cause infinite loop">>,
     <<"infinite", "useeffect usestate infinite render interface">>,
     <<"infinite", "useeffectinfiniteloop.js">>,
     <<"infinite", "useeffect infinite loop">>,
     <<"interface", "useeffect usestate infinite render interface">>,
     <<"loop", "why does useeffect cause infinite loop">>,
     <<"loop", "why does useeffect loop">>,
     <<"loop", "useeffectinfiniteloop.js">>,
     <<"loop", "useeffect infinite loop">>,
     <<"render", "usestate render">>,
     <<"render", "useeffect usestate infinite render interface">>,
     <<"type", "generic type">>,
     <<"type", "types.ts">>,
     <<"useeffect", "why does useeffect cause infinite loop">>,
     <<"useeffect", "useeffect usestate infinite render interface">>,
     <<"useeffect", "useeffect hook">>,
     <<"useeffect", "why does useeffect loop">>,
     <<"useeffect", "useeffectinfiniteloop.js">>,
     <<"useeffect", "useeffect infinite loop">>,
     <<"usestate", "usestate render">>,
     <<"usestate", "useeffect usestate infinite render interface">>,
     <<"why", "why does useeffect cause infinite loop">>,
     <<"why", "why does useeffect loop">>}

\* `kw in s` for a keyword kw and an (already lowercased) line s.
InStr(kw, s) ==
    \/ kw = s
    \/ <<kw, s>> \in SubstringPairs
    \/ kw = "useeffect" /\ s = "useeffect(run);"
    \/ kw = "function" /\ s \in {"function foo(){", "  function foo(){"}

\* str.split() of a lowercased query
Split(s) ==
    CASE s = "why does useeffect cause infinite loop"
            -> <<"why", "does", "useeffect", "cause", "infinite", "loop">>
      [] s = "format date" -> <<"format", "date">>
      [] s = "usestate render" -> <<"usestate", "render">>
      [] s = "generic type" -> <<"generic", "type">>
      [] s = "useeffect usestate infinite render interface"
            -> <<"useeffect", "usestate", "infinite", "render", "interface">>
      [] s = "useeffect hook" -> <<"useeffect", "hook">>
      [] s = "useeffect infinite loop" -> <<"useeffect", "infinite", "loop">>
      [] s = "why does useeffect loop" -> <<"why", "does", "useeffect", "loop">>
      [] OTHER -> <<s>>

\* `kw in text.lower()` for a multi-line text: no keyword holds a newline, so
\* it occurs in the joined text iff it occurs in one of the lines.
Contains(kw, text) == \E k \in 1..Len(text) : InStr(kw, Lower(text[k]))

\* any(re.match(pattern, line.strip()) for pattern in [...]): the six
\* block-start patterns, anchored at the start of the stripped line.
IsNewBlock(line) == Strip(line) \in {FooHead, BarHead}

\* chunk_text.strip() is empty: '\n'.join(buffer) is whitespace only.
IsBlankText(text) == \A k \in 1..Len(text) : Strip(text[k]) = ""

\* filename.endswith(suffix)
EndsWith(name, suffix) ==
    \/ name = "App.tsx" /\ suffix = ".tsx"
    \/ name = "types.ts" /\ suffix = ".ts"
    \/ name = "util.js" /\ suffix = ".js"
    \/ name = "useEffectInfiniteLoop.js" /\ suffix = ".js"
    \/ name = "README.md" /\ suffix = ".md"

----------------------------------------------------------------------------
(* CodeEmbedder._detect_chunk_type *)

\* A plausible slip: the export rule tested before the type/interface rule.
DetectChunkTypeSwapped(text) ==
    IF Contains("useeffect", text) \/ Contains("usestate", text) THEN "react_hook"
    ELSE IF Contains("function", text) /\ Contains("component", text) THEN "react_component"
    ELSE IF Contains("class", text) /\ Contains("extends", text) THEN "class_component"
    ELSE IF Contains("export", text) THEN "module_export"
    ELSE IF Contains("interface", text) \/ Contains("type", text) THEN "typescript_definition"
    ELSE IF Contains("import", text) THEN "import_statement"
    ELSE "code_block"

DetectChunkType(text) ==
    IF Contains("useeffect", text) \/ Contains("usestate", text) THEN "react_hook"
    ELSE IF Contains("function", text) /\ Contains("component", text) THEN "react_component"
    ELSE IF Contains("class", text) /\ Contains("extends", text) THEN "class_component"
    ELSE IF Contains("interface", text) \/ Contains("type", text) THEN "typescript_definition"
    ELSE IF Contains("export", text) THEN "module_export"
    ELSE IF Contains("import", text) THEN "import_statement"
    ELSE "code_block"

----------------------------------------------------------------------------
(* CodeEmbedder.smart_chunk_code *)

Language(name) ==
    IF EndsWith(name, ".tsx") \/ EndsWith(name, ".jsx") THEN "jsx"
    ELSE IF EndsWith(name, ".ts") THEN "typescript"
    ELSE "javascript"

\* A plausible slip: the boundary test looks at the buffer alone.
ShouldFlushBufferOnly(size, line_size, max_size, buffer) ==
    size > max_size /\ buffer # <<>>

\* A plausible slip: a buffer that would exactly reach the limit flushed.
ShouldFlushAtLimit(size, line_size, max_size, buffer) ==
    size + line_size >= max_size /\ buffer # <<>>

\* `if current_size + line_size > max_chunk_size and current_chunk`
ShouldFlush(size, line_size, max_size, buffer) ==
    size + line_size > max_size /\ buffer # <<>>

\* A plausible slip: the 0-based index taken for the 1-based line number.
StartLineZeroBased(end, buffer) == end - Len(buffer)

StartLine(end, buffer) == end - Len(buffer) + 1

\* The chunk appended for a buffer that ends at 1-based line `end`: none when
\* the joined buffer is whitespace only.
Emit(buffer, end) ==
    IF ~IsBlankText(buffer)
    THEN <<[text |-> buffer,
            filename |-> filename,
            start_line |-> StartLine(end, buffer),
            end_line |-> end,
            language |-> Language(filename),
            type |-> DetectChunkType(buffer)]>>
    ELSE <<>>

\* A plausible slip: the buffer is cleared after the append, losing the line.
NextBufferDropsLine(flush, buffer, line) ==
    IF flush THEN <<>> ELSE Append(buffer, line)

\* `current_chunk = []` on a flush, then `current_chunk.append(line)`.
NextBuffer(flush, buffer, line) ==
    Append(IF flush THEN <<>> ELSE buffer, line)

\* One iteration of `for i, line in enumerate(lines)`.
ChunkStep ==
    /\ pc = "loop"
    /\ i < Len(lines)
    /\ LET line == lines[i + 1]
           line_size == Len(line)
           is_new_block == IsNewBlock(line)
           flush == ShouldFlush(current_size, line_size, max_chunk_size, current_chunk)
       IN /\ chunks' = IF flush THEN chunks \o Emit(current_chunk, i) ELSE chunks
          /\ current_chunk' = NextBuffer(flush, current_chunk, line)
          /\ current_size' = (IF flush THEN 0 ELSE current_size) + line_size
    /\ i' = i + 1
    /\ UNCHANGED <<lines, filename, max_chunk_size, pc, typeVars, storeVars, retrVars,
                   uploadVars, singletonVars>>

\* After the loop: "Add the last chunk", then return chunks.
ChunkFinish ==
    /\ pc = "loop"
    /\ i = Len(lines)
    /\ chunks' = IF current_chunk # <<>>
                 THEN chunks \o Emit(current_chunk, Len(lines))
                 ELSE chunks
    /\ pc' = "done"
    /\ UNCHANGED <<lines, filename, max_chunk_size, i, current_chunk, current_size, typeVars,
                   storeVars, retrVars, uploadVars, singletonVars>>

ChunkNext == ChunkStep \/ ChunkFinish

\* The state smart_chunk_code starts its loop in.
ChunkEntry ==
    /\ i = 0
    /\ current_chunk = <<>>
    /\ current_size = 0
    /\ chunks = <<>>
    /\ pc = "loop"

TypeIdle == code = <<>> /\ chunk_type = "none"

StoreIdle == collection = <<>> /\ uuid_count = 0 /\ result = [op |-> "init"]

RetrieveIdle ==
    /\ r_pc = "idle"
    /\ r_query = ""
    /\ r_session = ""
    /\ r_max = 0
    /\ r_env = [store_ok |-> TRUE, embedder_ok |-> TRUE]
    /\ enhanced_queries = <<>>
    /\ r_k = 0
    /\ all_chunks = <<>>
    /\ seen_chunks = {}
    /\ r_log = <<>>
    /\ r_fault = {}
    /\ r_ret = [outcome |-> "none"]
    /\ context = "none"

SingletonIdle ==
    /\ g_instance = [embedder |-> 0, store |-> 0]
    /\ g_made = [embedder |-> 0, store |-> 0]
    /\ t_fn = <<>>
    /\ t_pc = <<>>
    /\ t_new = <<>>
    /\ t_ret = <<>>

UploadIdle ==
    /\ u_pc = "idle"
    /\ files_data = <<>>
    /\ u_idx = 0
    /\ u_all_chunks = <<>>
    /\ u_env = 0
    /\ u_ret = [outcome |-> "none"]

Filenames == {"App.tsx", "types.ts", "util.js"}
ChunkSizes == {2, 7, 20}

SeqsUpTo(S, n) == UNION {[1..m -> S] : m \in 1..n}

\* Any file of 1..MaxLines lines (split never yields an empty list).
InitChunk ==
    /\ lines \in SeqsUpTo(LineAlphabet, MaxLines)
    /\ filename \in Filenames
    /\ max_chunk_size \in ChunkSizes
    /\ ChunkEntry
    /\ TypeIdle
    /\ StoreIdle
    /\ RetrieveIdle
    /\ UploadIdle
    /\ SingletonIdle

SpecChunk == InitChunk /\ [][ChunkNext]_vars

ChunkIdle ==
    /\ lines = <<"">>
    /\ filename = "util.js"
    /\ max_chunk_size = 500
    /\ i = 0
    /\ current_chunk = <<>>
    /\ current_size = 0
    /\ chunks = <<>>
    /\ pc = "idle"

----------------------------------------------------------------------------
(* The 40-line scenario: a 15-line function Foo, a 10-line const Bar, and  *)
(* 15 further lines, chunked with the default max_chunk_size.              *)

DefaultMaxChunkSize == 500

Repeat(line, n) == [k \in 1..n |-> line]

ScenarioFile(fooBody, barBody, rest) ==
    <<FooHead>> \o Repeat(fooBody, 13) \o <<"}">>
    \o <<BarHead>> \o Repeat(barBody, 8) \o <<"}">>
    \o Repeat(rest, 15)

InitScenario ==
    /\ \E fooBody \in {Short, Long36}, barBody \in {Short, Long60},
          rest \in {"", Short, Long36} :
          lines = ScenarioFile(fooBody, barBody, rest)
    /\ filename \in {"App.tsx", "util.js"}
    /\ max_chunk_size = DefaultMaxChunkSize
    /\ ChunkEntry
    /\ TypeIdle
    /\ StoreIdle
    /\ RetrieveIdle
    /\ UploadIdle
    /\ SingletonIdle

SpecScenario == InitScenario /\ [][ChunkNext]_vars

----------------------------------------------------------------------------
(* One call of _detect_chunk_type on a text holding a chosen set of the    *)
(* keywords, written in source case or in lower case.                      *)

KeywordOrder ==
    <<"import", "export", "type", "interface", "extends", "class",
      "component", "function", "usestate", "useeffect">>

TextOf(K, cased) ==
    LET sel == SelectSeq(KeywordOrder, LAMBDA kw : kw \in K)
    IN <<Short>> \o [k \in 1..Len(sel) |-> IF cased THEN KeywordLine(sel[k]) ELSE sel[k]]

InitType ==
    /\ \E K \in SUBSET Keywords, cased \in BOOLEAN : code = TextOf(K, cased)
    /\ chunk_type = "none"
    /\ ChunkIdle
    /\ StoreIdle
    /\ RetrieveIdle
    /\ UploadIdle
    /\ SingletonIdle

DetectType ==
    /\ chunk_type = "none"
    /\ chunk_type' = DetectChunkType(code)
    /\ UNCHANGED <<code, chunkVars, storeVars, retrVars, uploadVars, singletonVars>>

SpecType == InitType /\ [][DetectType]_vars

----------------------------------------------------------------------------
(* CodeEmbedder.embed_chunks and process_uploaded_files.  An embedding is   *)
(* one integer.  The base64 content of an uploaded file is represented by   *)
(* what decoding it gives: the lines of the text, or a failure.             *)

\* f"File: {chunk['filename']}\nType: {chunk['type']}\nCode:\n{chunk['text']}"
ContextText(chunk) ==
    <<"File: " \o chunk.filename, "Type: " \o chunk.type, "Code:">> \o chunk.text

RECURSIVE TextSize(_)
TextSize(text) == IF text = <<>> THEN 0 ELSE Len(Head(text)) + 1 + TextSize(Tail(text))

\* model.encode: the vector of one text
Encode(text) == TextSize(text) % 5

\* chunk['embedding'] = e
WithEmbedding(chunk, e) ==
    [x \in DOMAIN chunk \cup {"embedding"} |-> IF x = "embedding" THEN e ELSE chunk[x]]

\* The backend fails while it encodes the fail_at-th text (0: it works).
EncodeFails(chs, fail_at) == fail_at \in 1..Len(chs)

\* A plausible slip: each chunk encoded and given its embedding in turn.
EmbedChunksOneByOne(chs, fail_at) ==
    LET bad == {k \in 1..Len(chs) :
                   \/ {"filename", "type", "text"} \ DOMAIN chs[k] # {}
                   \/ k = fail_at}
        stop == IF bad = {} THEN Len(chs) + 1 ELSE CHOOSE k \in bad : \A m \in bad : k <= m
    IN [raised |-> bad # {},
        chunks |-> [k \in 1..Len(chs) |->
                       IF k < stop THEN WithEmbedding(chs[k], Encode(ContextText(chs[k])))
                       ELSE chs[k]]]

\* embed_chunks(chunks): whether it raises, and the chunk dicts after it.
\* The texts are built first (KeyError for a chunk without filename, type or
\* text), then encoded in one call, then the embeddings are attached.
EmbedChunks(chs, fail_at) ==
    LET key_error == \E k \in 1..Len(chs) : {"filename", "type", "text"} \ DOMAIN chs[k] # {}
    IN IF key_error \/ EncodeFails(chs, fail_at)
       THEN [raised |-> TRUE, chunks |-> chs]
       ELSE [raised |-> FALSE,
             chunks |-> [k \in 1..Len(chs) |->
                            WithEmbedding(chs[k], Encode(ContextText(chs[k])))]]

\* filename.endswith(('.js', '.jsx', '.ts', '.tsx'))
IsReactFile(name) == \E suffix \in {".js", ".jsx", ".ts", ".tsx"} : EndsWith(name, suffix)

Undecodable == [ok |-> FALSE]
Decodes(text) == [ok |-> TRUE, lines |-> text]

\* One iteration of `for file_data in files_data`: the file is skipped (wrong
\* extension, content that does not decode, blank content) or handed to
\* smart_chunk_code with the default max_chunk_size.
UploadFile ==
    /\ u_pc = "files"
    /\ u_idx < Len(files_data)
    /\ LET file_data == files_data[u_idx + 1]
           skip == \/ ~IsReactFile(file_data.name)
                   \/ ~file_data.content.ok
                   \/ IsBlankText(file_data.content.lines)
       IN IF skip
          THEN /\ u_idx' = u_idx + 1
               /\ UNCHANGED <<u_pc, chunkVars>>
          ELSE /\ lines' = file_data.content.lines
               /\ filename' = file_data.name
               /\ max_chunk_size' = DefaultMaxChunkSize
               /\ i' = 0
               /\ current_chunk' = <<>>
               /\ current_size' = 0
               /\ chunks' = <<>>
               /\ pc' = "loop"
               /\ u_pc' = "chunking"
               /\ UNCHANGED u_idx
    /\ UNCHANGED <<files_data, u_all_chunks, u_env, u_ret>>
    /\ UNCHANGED <<typeVars, storeVars, retrVars, singletonVars>>

\* A plausible slip: the chunks of a file put in front of the earlier ones.
ExtendFront(all, chs) == chs \o all

\* all_chunks.extend(chunks)
Extend(all, chs) == all \o chs

\* The return of smart_chunk_code is added to all_chunks.
UploadCollect ==
    /\ u_pc = "chunking"
    /\ pc = "done"
    /\ u_all_chunks' = Extend(u_all_chunks, chunks)
    /\ u_idx' = u_idx + 1
    /\ u_pc' = "files"
    /\ pc' = "idle"
    /\ UNCHANGED <<lines, filename, max_chunk_size, i, current_chunk, current_size, chunks>>
    /\ UNCHANGED <<files_data, u_env, u_ret>>
    /\ UNCHANGED <<typeVars, storeVars, retrVars, singletonVars>>

\* After the loop: `if all_chunks: all_chunks = self.embed_chunks(all_chunks)`
\* and the return.  u_all_chunks keeps the batch as it was handed to
\* embed_chunks; u_ret.chunks is the batch after the call.
UploadEmbed ==
    /\ u_pc = "files"
    /\ u_idx = Len(files_data)
    /\ IF u_all_chunks # <<>>
       THEN LET out == EmbedChunks(u_all_chunks, u_env)
            IN u_ret' = [op |-> "process_uploaded_files",
                         outcome |-> IF out.raised THEN "raised" ELSE "returned",
                         chunks |-> out.chunks, encoded |-> TRUE]
       ELSE u_ret' = [op |-> "process_uploaded_files", outcome |-> "returned",
                      chunks |-> <<>>, encoded |-> FALSE]
    /\ u_pc' = "done"
    /\ UNCHANGED <<files_data, u_idx, u_all_chunks, u_env>>
    /\ UNCHANGED <<chunkVars, typeVars, storeVars, retrVars, singletonVars>>

\* A direct call embed_chunks(chunks).
EmbedDirect ==
    /\ u_pc = "embed"
    /\ LET out == EmbedChunks(u_all_chunks, u_env)
       IN u_ret' = [op |-> "embed_chunks",
                    outcome |-> IF out.raised THEN "raised" ELSE "returned",
                    chunks |-> out.chunks, encoded |-> TRUE]
    /\ u_pc' = "done"
    /\ UNCHANGED <<files_data, u_idx, u_all_chunks, u_env>>
    /\ UNCHANGED <<chunkVars, typeVars, storeVars, retrVars, singletonVars>>

UploadNext ==
    UploadFile \/ ChunkStep \/ ChunkFinish \/ UploadCollect \/ UploadEmbed \/ EmbedDirect

UploadFiles ==
    {[name |-> "App.tsx", content |-> Decodes(<<"useEffect(run);">>)],
     [name |-> "util.js", content |-> Decodes(<<Short, "}">>)],
     [name |-> "README.md", content |-> Decodes(<<Short>>)],
     [name |-> "util.js", content |-> Undecodable],
     [name |-> "types.ts", content |-> Decodes(<<"   ", "">>)]}

\* Chunks as smart_chunk_code makes them, and one without a type.
FreshChunk ==
    [text |-> <<Short>>, filename |-> "util.js", start_line |-> 1, end_line |-> 1,
     language |-> "javascript", type |-> "code_block"]
FreshHookChunk ==
    [text |-> <<"useEffect(run);">>, filename |-> "App.tsx", start_line |-> 1,
     end_line |-> 1, language |-> "jsx", type |-> "react_hook"]
UntypedChunk == [text |-> <<Short>>, filename |-> "util.js"]
EmbedPool == {FreshChunk, FreshHookChunk, UntypedChunk}

\* Where the backend may fail: nowhere, or at one of the first texts.
FailAts == 0..MaxBatch

\* A call of process_uploaded_files(files_data), or of embed_chunks(chunks).
InitUpload ==
    /\ \/ /\ u_pc = "files"
          /\ files_data \in {<<>>} \cup SeqsUpTo(UploadFiles, MaxFiles)
          /\ u_all_chunks = <<>>
       \/ /\ u_pc = "embed"
          /\ files_data = <<>>
          /\ u_all_chunks \in {<<>>} \cup SeqsUpTo(EmbedPool, MaxBatch)
    /\ u_idx = 0
    /\ u_env \in FailAts
    /\ u_ret = [outcome |-> "none"]
    /\ ChunkIdle
    /\ TypeIdle
    /\ StoreIdle
    /\ RetrieveIdle
    /\ SingletonIdle

SpecUpload == InitUpload /\ [][UploadNext]_vars

----------------------------------------------------------------------------
(* CodeVectorStore: one ChromaDB collection.  A record is                  *)
(* [id, document, embedding, metadata]; collection.get() lists records in  *)
(* insertion order.  A vector is one integer and the distance of two       *)
(* vectors is the squared difference.                                      *)

SessionArgs == {"A", "B"}          \* session ids a caller supplies
NoSession == ""                    \* session_id=None (or ''): `not session_id`
Uuids == <<"uuid1">>               \* the values str(uuid.uuid4()) yields, in turn
AllSessions == SessionArgs \cup {Uuids[n] : n \in 1..Len(Uuids)}

\* Chunk dicts handed to store_chunks; a dict may lack optional keys, and
\* one lacks the 'embedding' key.
HookChunk ==
    [filename |-> "App.tsx", text |-> <<"useEffect(run);">>, start_line |-> 1,
     end_line |-> 1, language |-> "jsx", type |-> "react_hook", embedding |-> 1]
PlainChunk ==
    [filename |-> "util.js", text |-> <<Short, "}">>, embedding |-> 3]
BareChunk ==
    [filename |-> "util.js", text |-> <<Short>>, start_line |-> 1,
     end_line |-> 1, language |-> "javascript", type |-> "code_block"]
ChunkPool == {HookChunk, PlainChunk, BareChunk}

Queries == {"why does useEffect loop", "format date"}
TopKs == {1, 2}             \* top_k arguments
KeepRecents == {0, 1, 2}    \* keep_recent arguments

\* embedder.model.encode([query])[0].tolist()
QueryEmbedding(query) ==
    CASE query = "why does useEffect loop" -> 1
      [] query = "format date" -> 4
      [] OTHER -> Len(query) % 5

Distance(u, v) == (u - v) * (u - v)

\* dict.get(key, default)
Get(d, key, default) == IF key \in DOMAIN d THEN d[key] ELSE default

\* f"{session_id}_{i}"
ChunkId(session_id, index) == session_id \o "_" \o ToString(index)

\* f"{chunk['filename']}\n{chunk['text']}"
DocText(chunk) == <<chunk.filename>> \o chunk.text

Metadata(chunk, session_id) ==
    [filename |-> chunk.filename,
     start_line |-> Get(chunk, "start_line", 0),
     end_line |-> Get(chunk, "end_line", 0),
     language |-> Get(chunk, "language", "javascript"),
     type |-> Get(chunk, "type", "code_block"),
     session_id |-> session_id]

Ids(coll) == {coll[k].id : k \in 1..Len(coll)}

\* A plausible slip: upsert, which overwrites a record whose id is present.
CollectionUpsert(coll, records) ==
    [k \in 1..Len(coll) |->
        IF \E j \in 1..Len(records) : records[j].id = coll[k].id
        THEN records[CHOOSE j \in 1..Len(records) : records[j].id = coll[k].id]
        ELSE coll[k]]
    \o SelectSeq(records, LAMBDA r : r.id \notin Ids(coll))

\* collection.add(...): a record whose id is already present is ignored
\* (ChromaDB logs "Add of existing embedding ID" and keeps the old record).
CollectionAdd(coll, records) ==
    coll \o SelectSeq(records, LAMBDA r : r.id \notin Ids(coll))

\* The lists built by the loop of store_chunks, as records.
Prepared(chs, session_id) ==
    [k \in 1..Len(chs) |->
        [id |-> ChunkId(session_id, k - 1),
         document |-> DocText(chs[k]),
         embedding |-> chs[k].embedding,
         metadata |-> Metadata(chs[k], session_id)]]

\* A plausible slip: the where-filter left out of the query.
InSessionNoFilter(coll, session_id) == coll

\* where={"session_id": session_id}
InSession(coll, session_id) ==
    SelectSeq(coll, LAMBDA r : r.metadata.session_id = session_id)

\* A plausible slip: each chunk added as soon as it is prepared, so that the
\* chunks before one that cannot be prepared are already persisted.
StoreChunksPerChunk(chs, sid, backend_ok) ==
    IF chs = <<>>
    THEN /\ result' = [op |-> "store", chunks |-> chs, session_id |-> sid,
                       ret |-> "", raised |-> FALSE, before |-> 0]
         /\ UNCHANGED <<collection, uuid_count>>
    ELSE
        LET fresh == sid = NoSession
            session_id == IF fresh THEN Uuids[uuid_count + 1] ELSE sid
            bad == {k \in 1..Len(chs) :
                       {"filename", "text", "embedding"} \ DOMAIN chs[k] # {}}
            good == SubSeq(chs, 1, IF bad = {} THEN Len(chs)
                                   ELSE (CHOOSE k \in bad : \A m \in bad : k <= m) - 1)
            stored == bad = {} /\ backend_ok
        IN /\ fresh => uuid_count < Len(Uuids)
           /\ uuid_count' = IF fresh THEN uuid_count + 1 ELSE uuid_count
           /\ collection' = IF backend_ok
                            THEN CollectionAdd(collection, Prepared(good, session_id))
                            ELSE collection
           /\ result' = [op |-> "store", chunks |-> chs, session_id |-> sid,
                         ret |-> IF stored THEN session_id ELSE "",
                         raised |-> ~stored,
                         before |-> Len(InSession(collection, session_id))]

\* A plausible slip: the session id resolved before the empty list is
\* looked at, and handed back for an empty list.
StoreChunksEmptyGetsId(chs, sid, backend_ok) ==
    LET fresh == sid = NoSession
        session_id == IF fresh THEN Uuids[uuid_count + 1] ELSE sid
        key_error == \E k \in 1..Len(chs) :
                        {"filename", "text", "embedding"} \ DOMAIN chs[k] # {}
        stored == ~key_error /\ backend_ok
    IN /\ fresh => uuid_count < Len(Uuids)
       /\ uuid_count' = IF fresh THEN uuid_count + 1 ELSE uuid_count
       /\ collection' = IF stored /\ chs # <<>>
                        THEN CollectionAdd(collection, Prepared(chs, session_id))
                        ELSE collection
       /\ result' = [op |-> "store", chunks |-> chs, session_id |-> sid,
                     ret |-> IF stored THEN session_id ELSE "",
                     raised |-> ~stored,
                     before |-> Len(InSession(collection, session_id))]

\* store_chunks(chunks, session_id).  backend_ok is whether collection.add
\* succeeds; a KeyError of the loop or a failing add is logged and re-raised.
StoreChunks(chs, sid, backend_ok) ==
    IF chs = <<>>
    THEN /\ result' = [op |-> "store", chunks |-> chs, session_id |-> sid,
                       ret |-> "", raised |-> FALSE, before |-> 0]
         /\ UNCHANGED <<collection, uuid_count>>
    ELSE
        LET fresh == sid = NoSession
            session_id == IF fresh THEN Uuids[uuid_count + 1] ELSE sid
            key_error == \E k \in 1..Len(chs) :
                            {"filename", "text", "embedding"} \ DOMAIN chs[k] # {}
            stored == ~key_error /\ backend_ok
        IN /\ fresh => uuid_count < Len(Uuids)
           /\ uuid_count' = IF fresh THEN uuid_count + 1 ELSE uuid_count
           /\ collection' = IF stored
                            THEN CollectionAdd(collection, Prepared(chs, session_id))
                            ELSE collection
           /\ result' = [op |-> "store", chunks |-> chs, session_id |-> sid,
                         ret |-> IF stored THEN session_id ELSE "",
                         raised |-> ~stored,
                         before |-> Len(InSession(collection, session_id))]

RemoveAt(seq, j) == SubSeq(seq, 1, j - 1) \o SubSeq(seq, j + 1, Len(seq))

\* The n nearest records of recs to vector q, nearest first.
RECURSIVE Nearest(_, _, _)
Nearest(recs, q, n) ==
    IF n = 0 \/ recs = <<>>
    THEN <<>>
    ELSE LET j == CHOOSE j \in 1..Len(recs) :
                    \A m \in 1..Len(recs) :
                        \/ Distance(recs[j].embedding, q) < Distance(recs[m].embedding, q)
                        \/ /\ Distance(recs[j].embedding, q) = Distance(recs[m].embedding, q)
                           /\ j <= m
         IN <<recs[j]>> \o Nearest(RemoveAt(recs, j), q, n - 1)

\* The dict search_similar_chunks builds for one hit.
Hit(rec, q) ==
    [text |-> rec.document,
     metadata |-> rec.metadata,
     distance |-> Distance(rec.embedding, q),
     filename |-> rec.metadata.filename,
     type |-> rec.metadata.type,
     start_line |-> rec.metadata.start_line,
     end_line |-> rec.metadata.end_line]

\* What search_similar_chunks returns when the embedder and the query work.
SearchSimilarChunks(coll, query, session_id, top_k) ==
    LET q == QueryEmbedding(query)
        hits == Nearest(InSession(coll, session_id), q, top_k)
    IN [k \in 1..Len(hits) |-> Hit(hits[k], q)]

\* search_similar_chunks(query, session_id, top_k): any exception (embedder
\* unavailable, query failing) is logged and [] returned.
\* A plausible slip: the distances found written back to the records.
SearchCachesDistance(query, sid, top_k, backend_ok) ==
    LET hits == IF backend_ok THEN SearchSimilarChunks(collection, query, sid, top_k)
                ELSE <<>>
        found(r) == {k \in 1..Len(hits) : hits[k].text = r.document /\ hits[k].metadata = r.metadata}
    IN /\ result' = [op |-> "search", query |-> query, session_id |-> sid, top_k |-> top_k,
                     ret |-> hits]
       /\ collection' = [j \in 1..Len(collection) |->
                            IF found(collection[j]) # {}
                            THEN [collection[j] EXCEPT !.embedding =
                                      hits[CHOOSE k \in found(collection[j]) : TRUE].distance]
                            ELSE collection[j]]
       /\ UNCHANGED uuid_count

Search(query, sid, top_k, backend_ok) ==
    /\ result' = [op |-> "search", query |-> query, session_id |-> sid, top_k |-> top_k,
                  ret |-> IF backend_ok
                          THEN SearchSimilarChunks(collection, query, sid, top_k)
                          ELSE <<>>]
    /\ UNCHANGED <<collection, uuid_count>>

ChunkTypes ==
    {"react_hook", "react_component", "class_component", "typescript_definition",
     "module_export", "import_statement", "code_block"}

\* What get_session_stats returns when collection.get works.
SessionStats(coll, session_id) ==
    LET recs == InSession(coll, session_id)
        present == {recs[k].metadata.type : k \in 1..Len(recs)}
    IN [session_id |-> session_id,
        total_chunks |-> Len(recs),
        file_types |-> [t \in present |->
                          Cardinality({k \in 1..Len(recs) : recs[k].metadata.type = t})]]

GetSessionStats(sid, backend_ok) ==
    /\ result' = [op |-> "stats", session_id |-> sid,
                  ret |-> IF backend_ok
                          THEN SessionStats(collection, sid)
                          ELSE [session_id |-> sid, total_chunks |-> 0,
                                file_types |-> <<>>]]
    /\ UNCHANGED <<collection, uuid_count>>

\* list(sessions.keys()): the session ids of the records, each once, in the
\* order of its first record.
RECURSIVE SessionOrder(_)
SessionOrder(coll) ==
    IF coll = <<>>
    THEN <<>>
    ELSE LET front == SessionOrder(SubSeq(coll, 1, Len(coll) - 1))
             sid == coll[Len(coll)].metadata.session_id
         IN IF \E k \in 1..Len(front) : front[k] = sid THEN front ELSE Append(front, sid)

\* Python's seq[:stop]
SliceTo(seq, stop) ==
    LET n == IF stop < 0
             THEN (IF Len(seq) + stop < 0 THEN 0 ELSE Len(seq) + stop)
             ELSE (IF stop > Len(seq) THEN Len(seq) ELSE stop)
    IN SubSeq(seq, 1, n)

\* `if len(session_ids) > keep_recent: old_sessions = session_ids[:-keep_recent]`
OldSessions(session_ids, keep_recent) ==
    IF Len(session_ids) > keep_recent
    THEN SliceTo(session_ids, 0 - keep_recent)
    ELSE <<>>

\* collection.delete(where={"session_id": s}) for each s of `sessions`.
DeleteSessions(coll, sessions) ==
    SelectSeq(coll, LAMBDA r : \A k \in 1..Len(sessions) : sessions[k] # r.metadata.session_id)

\* cleanup_old_sessions(keep_recent).  fail_at = 0: no backend call fails;
\* fail_at = 1: collection.get() raises; fail_at = n + 1: the n-th delete
\* raises.  The exception is logged and the call returns.
CleanupOldSessions(keep_recent, fail_at) ==
    LET old_sessions == OldSessions(SessionOrder(collection), keep_recent)
        done == IF fail_at = 0 THEN old_sessions
                ELSE IF fail_at = 1 THEN <<>>
                ELSE SliceTo(old_sessions, fail_at - 2)
    IN /\ fail_at <= Len(old_sessions) + 1
       /\ collection' = DeleteSessions(collection, done)
       /\ result' = [op |-> "cleanup", keep_recent |-> keep_recent,
                     failed |-> fail_at # 0, before |-> collection]
       /\ UNCHANGED uuid_count

\* reset_database().  backend_ok is whether client.delete_collection
\* succeeds; on success the collection is re-created empty, on failure the
\* exception is logged and the call returns.
ResetDatabase(backend_ok) ==
    /\ collection' = IF backend_ok THEN <<>> ELSE collection
    /\ result' = [op |-> "reset", failed |-> ~backend_ok]
    /\ UNCHANGED uuid_count

Batches == {<<>>} \cup SeqsUpTo(ChunkPool, MaxBatch)

DoStore ==
    \E chs \in Batches, sid \in SessionArgs \cup {NoSession}, ok \in BOOLEAN :
        /\ Len(collection) + Len(chs) <= MaxStored
        /\ StoreChunks(chs, sid, ok)
        /\ UNCHANGED <<chunkVars, typeVars, retrVars, uploadVars, singletonVars>>

DoSearch ==
    \E query \in Queries, sid \in AllSessions, top_k \in TopKs, ok \in BOOLEAN :
        /\ Search(query, sid, top_k, ok)
        /\ UNCHANGED <<chunkVars, typeVars, retrVars, uploadVars, singletonVars>>

DoStats ==
    \E sid \in AllSessions, ok \in BOOLEAN :
        /\ GetSessionStats(sid, ok)
        /\ UNCHANGED <<chunkVars, typeVars, retrVars, uploadVars, singletonVars>>

DoCleanup ==
    \E keep_recent \in KeepRecents, fail_at \in 0..(MaxStored + 1) :
        /\ CleanupOldSessions(keep_recent, fail_at)
        /\ UNCHANGED <<chunkVars, typeVars, retrVars, uploadVars, singletonVars>>

DoReset ==
    \E ok \in BOOLEAN :
        /\ ResetDatabase(ok)
        /\ UNCHANGED <<chunkVars, typeVars, retrVars, uploadVars, singletonVars>>

StoreNext == DoStore \/ DoSearch \/ DoStats \/ DoCleanup \/ DoReset

InitStore ==
    StoreIdle /\ ChunkIdle /\ TypeIdle /\ RetrieveIdle /\ UploadIdle /\ SingletonIdle

SpecStore == InitStore /\ [][StoreNext]_vars

----------------------------------------------------------------------------
(* CodeRetriever.  relevance_score is kept in units of 0.5 (the code's     *)
(* increments 1.0, 2.0 and 1.5 are 2, 4 and 3), so that scores are         *)
(* integers.                                                               *)

\* A plausible slip: the useState rule made an `elif` of the useEffect rule.
EnhanceQueryElif(query) ==
    LET query_lower == Lower(query)
    IN <<query>>
       \o (IF InStr("useeffect", query_lower)
           THEN <<query \o " dependency array", query \o " cleanup function",
                  "useEffect infinite loop">>
           ELSE IF InStr("usestate", query_lower)
           THEN <<query \o " state update", query \o " functional update",
                  "useState asynchronous">>
           ELSE <<>>)
       \o (IF InStr("infinite", query_lower) \/ InStr("loop", query_lower)
           THEN <<"useEffect dependency array", "missing dependencies",
                  "useCallback memoization">>
           ELSE <<>>)
       \o (IF InStr("render", query_lower)
           THEN <<"React.memo optimization", "useMemo performance",
                  "unnecessary re-render">>
           ELSE <<>>)
       \o (IF \E ts_term \in {"type", "interface", "generic"} : InStr(ts_term, query_lower)
           THEN <<query \o " TypeScript", query \o " type definition">>
           ELSE <<>>)

\* enhance_query(query)
EnhanceQuery(query) ==
    LET query_lower == Lower(query)
    IN <<query>>
       \o (IF InStr("useeffect", query_lower)
           THEN <<query \o " dependency array", query \o " cleanup function",
                  "useEffect infinite loop">>
           ELSE <<>>)
       \o (IF InStr("usestate", query_lower)
           THEN <<query \o " state update", query \o " functional update",
                  "useState asynchronous">>
           ELSE <<>>)
       \o (IF InStr("infinite", query_lower) \/ InStr("loop", query_lower)
           THEN <<"useEffect dependency array", "missing dependencies",
                  "useCallback memoization">>
           ELSE <<>>)
       \o (IF InStr("render", query_lower)
           THEN <<"React.memo optimization", "useMemo performance",
                  "unnecessary re-render">>
           ELSE <<>>)
       \o (IF \E ts_term \in {"type", "interface", "generic"} : InStr(ts_term, query_lower)
           THEN <<query \o " TypeScript", query \o " type definition">>
           ELSE <<>>)

\* _calculate_relevance(query, chunk), in units of 0.5.  chunk['text'] is the
\* stored document: the filename line followed by the chunk text.
CalculateRelevance(query, chunk) ==
    LET query_lower == Lower(query)
        chunk_text == chunk.text
        ctype == Get(chunk.metadata, "type", "")
        query_words == Split(query_lower)
        matches == {k \in 1..Len(query_words) : Contains(query_words[k], chunk_text)}
    IN 2 * Cardinality(matches)
       + (IF InStr("useeffect", query_lower) /\ Contains("useeffect", chunk_text)
          THEN 4 ELSE 0)
       + (IF InStr("usestate", query_lower) /\ Contains("usestate", chunk_text)
          THEN 4 ELSE 0)
       + (IF /\ InStr("infinite", query_lower)
             /\ Contains("dependency", chunk_text) \/ Contains("useeffect", chunk_text)
          THEN 3 ELSE 0)
       + (IF /\ ctype = "react_hook"
             /\ \E hook \in {"hook", "useeffect", "usestate"} : InStr(hook, query_lower)
          THEN 2 ELSE 0)
       + (IF ctype = "react_component" /\ InStr("component", query_lower)
          THEN 2 ELSE 0)
       + (IF /\ ctype = "typescript_definition"
             /\ \E ts_term \in {"type", "interface"} : InStr(ts_term, query_lower)
          THEN 2 ELSE 0)

\* chunk_key = f"{chunk['filename']}:{chunk['start_line']}"
ChunkKey(chunk) == chunk.filename \o ":" \o ToString(chunk.start_line)

\* A plausible slip: a later copy of a chunk replacing the one kept.
RECURSIVE AddUniqueKeepLast(_, _, _, _)
AddUniqueKeepLast(hits, all, seen, query) ==
    IF hits = <<>>
    THEN [all |-> all, seen |-> seen]
    ELSE LET chunk == Head(hits)
             chunk_key == ChunkKey(chunk)
             scored == [chunk EXCEPT !.relevance_score = CalculateRelevance(query, chunk)]
         IN IF chunk_key \notin seen
            THEN AddUniqueKeepLast(Tail(hits), Append(all, scored),
                                   seen \cup {chunk_key}, query)
            ELSE AddUniqueKeepLast(Tail(hits),
                                   [k \in 1..Len(all) |->
                                       IF ChunkKey(all[k]) = chunk_key THEN scored ELSE all[k]],
                                   seen, query)

\* The "Add unique chunks" loop over the hits of one variant: the pair of
\* all_chunks and seen_chunks after it.
RECURSIVE AddUnique(_, _, _, _)
AddUnique(hits, all, seen, query) ==
    IF hits = <<>>
    THEN [all |-> all, seen |-> seen]
    ELSE LET chunk == Head(hits)
             chunk_key == ChunkKey(chunk)
         IN IF chunk_key \notin seen
            THEN AddUnique(Tail(hits),
                           Append(all, [chunk EXCEPT !.relevance_score =
                                                        CalculateRelevance(query, chunk)]),
                           seen \cup {chunk_key}, query)
            ELSE AddUnique(Tail(hits), all, seen, query)

\* The key (relevance_score, -distance) of a is greater than that of b.
KeyGreater(a, b) ==
    \/ a.relevance_score > b.relevance_score
    \/ a.relevance_score = b.relevance_score /\ a.distance < b.distance

\* A plausible slip: the distance not negated in the key.
SortChunksFarthestFirst(seq) ==
    LET better(a, b) ==
            \/ a.relevance_score > b.relevance_score
            \/ a.relevance_score = b.relevance_score /\ a.distance > b.distance
        rank(j) == Cardinality({m \in 1..Len(seq) :
                        better(seq[m], seq[j]) \/ (~better(seq[j], seq[m]) /\ m < j)})
    IN [n \in 1..Len(seq) |-> seq[CHOOSE j \in 1..Len(seq) : rank(j) = n - 1]]

\* all_chunks.sort(key=lambda x: (x['relevance_score'], -x['distance']),
\* reverse=True): descending by key, equal keys in their original order.
SortChunks(seq) ==
    LET rank(j) == Cardinality({m \in 1..Len(seq) :
                        KeyGreater(seq[m], seq[j])
                        \/ (~KeyGreater(seq[j], seq[m]) /\ m < j)})
    IN [n \in 1..Len(seq) |-> seq[CHOOSE j \in 1..Len(seq) : rank(j) = n - 1]]

\* Python's seq[:n] for n >= 0
FirstN(seq, n) == SubSeq(seq, 1, IF n > Len(seq) THEN Len(seq) ELSE n)

\* The hit dict before scoring carries no relevance_score; the field is
\* present from the start here and set by the scoring.
Unscored(hits) == [k \in 1..Len(hits) |->
    [text |-> hits[k].text, metadata |-> hits[k].metadata, distance |-> hits[k].distance,
     filename |-> hits[k].filename, type |-> hits[k].type,
     start_line |-> hits[k].start_line, end_line |-> hits[k].end_line,
     relevance_score |-> 0]]

\* A plausible slip: a failed search treated like a failure of the call.
VariantOutcomeSearchFatal(works, scored, hits, all, seen, query) ==
    IF ~scored \/ ~works
    THEN [ended |-> TRUE, all |-> all, seen |-> seen]
    ELSE LET added == AddUnique(hits, all, seen, query)
         IN [ended |-> FALSE, all |-> added.all, seen |-> added.seen]

\* What one loop iteration does with the hits of its search.  works: the
\* search did not fail (a failed search has returned []); scored: no
\* _calculate_relevance call of the iteration raised.  An exception raised in
\* the iteration is caught by the handler of the whole call, which ends it.
VariantOutcome(works, scored, hits, all, seen, query) ==
    IF ~scored
    THEN [ended |-> TRUE, all |-> all, seen |-> seen]
    ELSE LET added == AddUnique(hits, all, seen, query)
         IN [ended |-> FALSE, all |-> added.all, seen |-> added.seen]

retrArgs == <<r_query, r_session, r_max, r_env>>

\* get_vector_store() and enhance_query(query).  When the store cannot be
\* obtained the exception is caught by the handler of the call, which logs
\* it and returns [].
RetrieveBegin ==
    /\ r_pc = "start"
    /\ IF r_env.store_ok
       THEN /\ enhanced_queries' = EnhanceQuery(r_query)
            /\ r_pc' = "loop"
            /\ UNCHANGED <<r_fault, r_ret>>
       ELSE /\ r_fault' = r_fault \cup {"store"}
            /\ r_ret' = [outcome |-> "returned", value |-> <<>>]
            /\ r_pc' = "done"
            /\ UNCHANGED enhanced_queries
    /\ UNCHANGED <<retrArgs, r_k, all_chunks, seen_chunks, r_log, context>>
    /\ UNCHANGED <<chunkVars, typeVars, storeVars, uploadVars, singletonVars>>

\* One iteration of `for enhanced_query in enhanced_queries[:3]`.
\* search_ok: the search of this variant works (it cannot when the embedder
\* is unavailable); search_similar_chunks returns [] when it does not.
\* score_ok: _calculate_relevance works for the chunks of this variant; an
\* exception it raises ends the call in the handler, which returns [].
RetrieveVariant(search_ok, score_ok) ==
    /\ r_pc = "loop"
    /\ r_k < Len(FirstN(enhanced_queries, 3))
    /\ LET enhanced_query == enhanced_queries[r_k + 1]
           works == search_ok /\ r_env.embedder_ok
           hits == IF works
                   THEN Unscored(SearchSimilarChunks(collection, enhanced_query,
                                                     r_session, r_max))
                   ELSE <<>>
           fresh == \E k \in 1..Len(hits) : ChunkKey(hits[k]) \notin seen_chunks
           scored == ~fresh \/ score_ok
           out == VariantOutcome(works, scored, hits, all_chunks, seen_chunks, r_query)
       IN /\ r_log' = Append(r_log, [query |-> enhanced_query, session_id |-> r_session,
                                     top_k |-> r_max, failed |-> ~works,
                                     hits |-> hits])
          /\ r_fault' = r_fault \cup (IF works THEN {} ELSE {"search"})
                                \cup (IF scored THEN {} ELSE {"score"})
          /\ all_chunks' = out.all
          /\ seen_chunks' = out.seen
          /\ IF out.ended
             THEN /\ r_ret' = [outcome |-> "returned", value |-> <<>>]
                  /\ r_pc' = "done"
             ELSE UNCHANGED <<r_ret, r_pc>>
    /\ r_k' = r_k + 1
    /\ UNCHANGED <<retrArgs, enhanced_queries, context>>
    /\ UNCHANGED <<chunkVars, typeVars, storeVars, uploadVars, singletonVars>>

\* After the loop: sort, truncate to max_chunks, return.
RetrieveFinish ==
    /\ r_pc = "loop"
    /\ r_k = Len(FirstN(enhanced_queries, 3))
    /\ r_ret' = [outcome |-> "returned", value |-> FirstN(SortChunks(all_chunks), r_max)]
    /\ r_pc' = "done"
    /\ UNCHANGED <<retrArgs, enhanced_queries, r_k, all_chunks, seen_chunks, r_log, r_fault,
                   context>>
    /\ UNCHANGED <<chunkVars, typeVars, storeVars, uploadVars, singletonVars>>

\* Python's str.strip() on a text of several lines: blank lines at both ends
\* go, and the white space at the outer ends of the first and last line left.
\* No line of the texts here has trailing white space, so Strip serves for
\* the left strip of the first line.
StripText(text) ==
    LET nb == {k \in 1..Len(text) : Strip(text[k]) # ""}
    IN IF nb = {}
       THEN <<"">>
       ELSE LET lo == CHOOSE k \in nb : \A m \in nb : k <= m
                hi == CHOOSE k \in nb : \A m \in nb : m <= k
            IN [k \in 1..(hi - lo + 1) |->
                   IF k = 1 THEN Strip(text[lo]) ELSE text[lo + k - 1]]

\* The Markdown code fence (three backquotes), a character TLA+ strings
\* cannot hold.
Fence == "<fence>"

\* The four parts format_context_for_ai appends for the i-th chunk, as lines.
ContextPart(chunk, n) ==
    LET start_line == Get(chunk.metadata, "start_line", 0)
        end_line == Get(chunk.metadata, "end_line", 0)
        ctype == Get(chunk.metadata, "type", "code")
        text_lines == chunk.text
        code_text == IF text_lines[1] = chunk.filename THEN Tail(text_lines) ELSE chunk.text
    IN <<"### " \o ToString(n) \o ". " \o chunk.filename \o " (lines "
            \o ToString(start_line) \o "-" \o ToString(end_line) \o ") - " \o ctype,
         Fence \o Get(chunk.metadata, "language", "javascript")>>
       \o StripText(code_text)
       \o <<Fence, "">>

RECURSIVE ContextParts(_, _)
ContextParts(chs, n) ==
    IF n > Len(chs) THEN <<>> ELSE ContextPart(chs[n], n) \o ContextParts(chs, n + 1)

\* A plausible slip: the empty list not told apart.
FormatContextNoMarker(chs, query) ==
    LET header == "## Relevant Code for Query: '" \o query \o "'"
    IN <<header, "">> \o ContextParts(chs, 1)

\* format_context_for_ai(chunks, query); the returned string as its lines.
FormatContextForAI(chs, query) ==
    IF chs = <<>>
    THEN <<"No relevant code found.">>
    ELSE LET header == "## Relevant Code for Query: '" \o query \o "'"
         IN <<header, "">> \o ContextParts(chs, 1)

\* The caller formats what the retrieval returned.
FormatContext ==
    /\ r_pc = "done"
    /\ r_ret.outcome = "returned"
    /\ context' = FormatContextForAI(r_ret.value, r_query)
    /\ r_pc' = "formatted"
    /\ UNCHANGED <<retrArgs, enhanced_queries, r_k, all_chunks, seen_chunks, r_log, r_fault,
                   r_ret>>
    /\ UNCHANGED <<chunkVars, typeVars, storeVars, uploadVars, singletonVars>>

DoRetrieveVariant == \E search_ok \in BOOLEAN, score_ok \in BOOLEAN : RetrieveVariant(search_ok, score_ok)

RetrieveNext == RetrieveBegin \/ DoRetrieveVariant \/ RetrieveFinish \/ FormatContext

\* Chunks of the sessions the retriever is run against.  The style chunk is
\* CSS-in-JS code in a file whose name mentions the hook.
StyleChunk ==
    [filename |-> "useEffectInfiniteLoop.js", text |-> <<"color: red;">>,
     start_line |-> 1, end_line |-> 1, language |-> "javascript",
     type |-> "code_block", embedding |-> 2]
CssChunk ==
    [filename |-> "util.js", text |-> <<"color: red;">>, start_line |-> 7,
     end_line |-> 7, language |-> "javascript", type |-> "code_block", embedding |-> 0]
RetrievePool == {HookChunk, PlainChunk, StyleChunk, CssChunk}

RetrieveQueries ==
    {"why does useEffect cause infinite loop", "format date", "useState render",
     "generic type", "useEffect useState infinite render interface", "loop",
     "useEffect hook", "useEffect infinite loop"}

MaxChunksArgs == {1, 2, 8}

\* A call of retrieve_relevant_chunks(query, "A", max_chunks) against a
\* store that holds a batch stored under "A" (possibly none) and a chunk of
\* session "B".
InitRetrieve ==
    /\ \E batch \in {<<>>} \cup SeqsUpTo(RetrievePool, MaxBatch) :
          collection = CollectionAdd(CollectionAdd(<<>>, Prepared(<<HookChunk>>, "B")),
                                     Prepared(batch, "A"))
    /\ uuid_count = 0
    /\ result = [op |-> "init"]
    /\ r_pc = "start"
    /\ r_query \in RetrieveQueries
    /\ r_session = "A"
    /\ r_max \in MaxChunksArgs
    /\ r_env \in [store_ok : BOOLEAN, embedder_ok : BOOLEAN]
    /\ enhanced_queries = <<>>
    /\ r_k = 0
    /\ all_chunks = <<>>
    /\ seen_chunks = {}
    /\ r_log = <<>>
    /\ r_fault = {}
    /\ r_ret = [outcome |-> "none"]
    /\ context = "none"
    /\ ChunkIdle
    /\ TypeIdle
    /\ UploadIdle
    /\ SingletonIdle

SpecRetrieve == InitRetrieve /\ [][RetrieveNext]_vars

\* The read paths together: one retrieval in progress while
\* search_similar_chunks and get_session_stats are also called directly.
InitRead ==
    /\ InitRetrieve
    /\ r_query = "useEffect hook"
    /\ r_max = 2

ReadNext == RetrieveNext \/ DoSearch \/ DoStats

SpecRead == InitRead /\ [][ReadNext]_vars

----------------------------------------------------------------------------
(* get_embedder and get_vector_store: the two module-level singletons.  The *)
(* threads are the request threads of one process; a thread may be          *)
(* switched between any two of: reading the global for the test, running    *)
(* the constructor, storing the global, reading the global for the return.  *)

Threads == 1..MaxThreads
Getters == {"embedder", "store"}

\* `if _embedder is None:` (resp. _vector_store)
GetCheck(t) ==
    /\ t_pc[t] = "check"
    /\ t_pc' = [t_pc EXCEPT ![t] = IF g_instance[t_fn[t]] = 0 THEN "construct" ELSE "return"]
    /\ UNCHANGED <<g_instance, g_made, t_fn, t_new, t_ret>>
    /\ UNCHANGED <<chunkVars, typeVars, storeVars, retrVars, uploadVars>>

\* CodeEmbedder() (resp. CodeVectorStore()); ok is whether the constructor
\* returns: it logs and re-raises when the model or the client cannot be set
\* up, and the exception leaves the getter.
GetConstruct(t, ok) ==
    /\ t_pc[t] = "construct"
    /\ IF ok
       THEN /\ g_made' = [g_made EXCEPT ![t_fn[t]] = @ + 1]
            /\ t_new' = [t_new EXCEPT ![t] = g_made[t_fn[t]] + 1]
            /\ t_pc' = [t_pc EXCEPT ![t] = "assign"]
       ELSE /\ t_pc' = [t_pc EXCEPT ![t] = "raised"]
            /\ UNCHANGED <<g_made, t_new>>
    /\ UNCHANGED <<g_instance, t_fn, t_ret>>
    /\ UNCHANGED <<chunkVars, typeVars, storeVars, retrVars, uploadVars>>

\* `_embedder = ...` (the store of the global)
GetAssign(t) ==
    /\ t_pc[t] = "assign"
    /\ g_instance' = [g_instance EXCEPT ![t_fn[t]] = t_new[t]]
    /\ t_pc' = [t_pc EXCEPT ![t] = "return"]
    /\ UNCHANGED <<g_made, t_fn, t_new, t_ret>>
    /\ UNCHANGED <<chunkVars, typeVars, storeVars, retrVars, uploadVars>>

\* `return _embedder`
GetReturn(t) ==
    /\ t_pc[t] = "return"
    /\ t_ret' = [t_ret EXCEPT ![t] = g_instance[t_fn[t]]]
    /\ t_pc' = [t_pc EXCEPT ![t] = "done"]
    /\ UNCHANGED <<g_instance, g_made, t_fn, t_new>>
    /\ UNCHANGED <<chunkVars, typeVars, storeVars, retrVars, uploadVars>>

DoGetCheck == \E t \in Threads : GetCheck(t)
DoGetConstruct == \E t \in Threads, ok \in BOOLEAN : GetConstruct(t, ok)
DoGetAssign == \E t \in Threads : GetAssign(t)
DoGetReturn == \E t \in Threads : GetReturn(t)

SingletonNext == DoGetCheck \/ DoGetConstruct \/ DoGetAssign \/ DoGetReturn

\* A fresh process: both globals None, every thread about to call a getter.
InitSingleton ==
    /\ g_instance = [embedder |-> 0, store |-> 0]
    /\ g_made = [embedder |-> 0, store |-> 0]
    /\ t_fn \in [Threads -> Getters]
    /\ t_pc = [t \in Threads |-> "check"]
    /\ t_new = [t \in Threads |-> 0]
    /\ t_ret = [t \in Threads |-> 0]
    /\ ChunkIdle
    /\ TypeIdle
    /\ StoreIdle
    /\ RetrieveIdle
    /\ UploadIdle

SpecSingleton == InitSingleton /\ [][SingletonNext]_vars

----------------------------------------------------------------------------
(* Properties of the vector store *)

\* The record a hit was built from: same document and metadata.
SourceRecords(coll, hit) ==
    {j \in 1..Len(coll) : coll[j].document = hit.text /\ coll[j].metadata = hit.metadata}

\* The record's id is an id store_chunks builds for session sid.
StoredUnder(rec, sid) == \E n \in 0..MaxBatch : rec.id = ChunkId(sid, n)

HitsOfSession(coll, hits, sid) ==
    \A k \in 1..Len(hits) :
        /\ hits[k].metadata.session_id = sid
        /\ \E j \in SourceRecords(coll, hits[k]) : StoredUnder(coll[j], sid)
        /\ \A j \in SourceRecords(coll, hits[k]) :
              \A other \in AllSessions \ {sid} : ~StoredUnder(coll[j], other)

\* C1: session isolation: whatever calls came before, a search for session
\* A returns only chunks stored under A, never one stored under another
\* session.
C1_SessionIsolation ==
    /\ result.op = "search" => HitsOfSession(collection, result.ret, result.session_id)
    /\ \A query \in Queries, sid \in AllSessions, top_k \in TopKs :
          HitsOfSession(collection, SearchSimilarChunks(collection, query, sid, top_k), sid)

\* C1 witness: a search returned a chunk of its session while the store
\* held a record of another session at least as near to the query.
C1_Witness ==
    /\ result.op = "search"
    /\ Len(result.ret) >= 1
    /\ \E j \in 1..Len(collection) :
          /\ collection[j].metadata.session_id # result.session_id
          /\ Distance(collection[j].embedding, QueryEmbedding(result.query))
                <= result.ret[1].distance

LastN(seq, n) == SubSeq(seq, Len(seq) - n + 1, Len(seq))

MinOf(a, b) == IF a < b THEN a ELSE b

\* C2: a cleanup_old_sessions(keep_recent=N) that ran without a backend
\* failure on a store of N+K sessions leaves exactly the N most recently
\* created sessions, with all their chunks, and no chunk of the K oldest.
C2_CleanupKeepsNewest ==
    (result.op = "cleanup" /\ ~result.failed) =>
        LET before == SessionOrder(result.before)
            kept == LastN(before, MinOf(result.keep_recent, Len(before)))
        IN /\ SessionOrder(collection) = kept
           /\ Len(kept) = MinOf(result.keep_recent, Len(before))
           /\ \A k \in 1..Len(kept) :
                 InSession(collection, kept[k]) = InSession(result.before, kept[k])
           /\ \A k \in 1..Len(before) :
                 (\A m \in 1..Len(kept) : kept[m] # before[k]) =>
                     InSession(collection, before[k]) = <<>>

\* C3: a store_chunks call that returned normally with a non-empty list has
\* persisted every chunk of the list under the returned session id: the
\* session holds as many more records as the list has chunks, each with the
\* id "{session_id}_{index}", the chunk's document and its metadata.
C3_StorePersistsAll ==
    (result.op = "store" /\ ~result.raised /\ result.chunks # <<>>) =>
        /\ Len(InSession(collection, result.ret)) = result.before + Len(result.chunks)
        /\ \A k \in 1..Len(result.chunks) :
              \E j \in 1..Len(collection) :
                  /\ collection[j].document = DocText(result.chunks[k])
                  /\ collection[j].metadata = Metadata(result.chunks[k], result.ret)
                  /\ collection[j].embedding = result.chunks[k].embedding

\* C4: after reset_database returns no chunk of any session remains: stats
\* report 0 chunks and searches return nothing, whether or not the backend
\* delete failed.
C4_ResetDropsAll ==
    result.op = "reset" =>
        \A sid \in AllSessions :
            /\ SessionStats(collection, sid).total_chunks = 0
            /\ \A query \in Queries, top_k \in TopKs :
                  SearchSimilarChunks(collection, query, sid, top_k) = <<>>

\* C5: stored chunks are immutable: a step never changes the document,
\* metadata or embedding of a chunk id that stays in the store; ids appear
\* only by store_chunks and disappear only by cleanup_old_sessions or
\* reset_database.
C5_ChunksImmutable ==
    [][/\ \A j \in 1..Len(collection) : \A m \in 1..Len(collection') :
             collection[j].id = collection'[m].id => collection[j] = collection'[m]
       /\ Ids(collection') \ Ids(collection) # {} => result'.op = "store"
       /\ Ids(collection) \ Ids(collection') # {} => result'.op \in {"cleanup", "reset"}]_vars

\* C5 witness: a store_chunks call returned normally after offering, under
\* an id already present, a chunk with a different document; the old
\* record is still there.
C5_Witness ==
    /\ result.op = "store"
    /\ ~result.raised
    /\ \E k \in 1..Len(result.chunks) : \E j \in 1..Len(collection) :
          /\ collection[j].id = ChunkId(result.ret, k - 1)
          /\ collection[j].document # DocText(result.chunks[k])

RECURSIVE SumOver(_, _)
SumOver(f, keys) ==
    IF keys = {} THEN 0
    ELSE LET k == CHOOSE x \in keys : TRUE IN f[k] + SumOver(f, keys \ {k})

PersistedUnder(session_id) ==
    {j \in 1..Len(collection) : collection[j].metadata.session_id = session_id}

\* C24: get_session_stats(S) reports as total_chunks the number of chunks
\* persisted under S and per-type counts that sum to it; for a session
\* without chunks it reports 0 and no counts; it never raises.
C24_StatsCountSession ==
    result.op = "stats" =>
        LET stats == result.ret
            n == Cardinality(PersistedUnder(result.session_id))
        IN /\ stats.total_chunks = n
           /\ SumOver(stats.file_types, DOMAIN stats.file_types) = stats.total_chunks
           /\ n = 0 => DOMAIN stats.file_types = {}

LacksEmbedding(chs) == \E k \in 1..Len(chs) : "embedding" \notin DOMAIN chs[k]

\* C20: every persisted record has an embedding, and a store_chunks call
\* whose list holds a chunk without an embedding raises and leaves the
\* collection as it was.
C20_NoChunkWithoutEmbedding ==
    /\ [](\A j \in 1..Len(collection) : "embedding" \in DOMAIN collection[j])
    /\ [][(result'.op = "store" /\ LacksEmbedding(result'.chunks))
             => (result'.raised /\ collection' = collection)]_vars

\* C20 witness: a call with an embedded chunk followed by a chunk without
\* embedding, for a session that already holds chunks, has raised and
\* the session holds what it held before.
C20_Witness ==
    /\ result.op = "store"
    /\ Len(result.chunks) = 2
    /\ "embedding" \in DOMAIN result.chunks[1]
    /\ "embedding" \notin DOMAIN result.chunks[2]
    /\ result.raised
    /\ result.session_id \in SessionArgs
    /\ result.before > 0
    /\ Len(InSession(collection, result.session_id)) = result.before

----------------------------------------------------------------------------
(* Properties of embedding *)

NoneEmbedded(chs) == \A k \in 1..Len(chs) : "embedding" \notin DOMAIN chs[k]
AllEmbedded(chs) == \A k \in 1..Len(chs) : "embedding" \in DOMAIN chs[k]

\* C19: embedding is all-or-nothing.  If the backend fails during
\* embed_chunks, called directly or by process_uploaded_files, the call
\* raises and no chunk of the batch has an embedding; if the call returns,
\* every chunk of the batch has one.
C19_EmbedAllOrNothing ==
    u_pc = "done" =>
        /\ (u_ret.encoded /\ EncodeFails(u_all_chunks, u_env)) => u_ret.outcome = "raised"
        /\ u_ret.outcome = "raised" =>
               /\ Len(u_ret.chunks) = Len(u_all_chunks)
               /\ NoneEmbedded(u_ret.chunks)
        /\ u_ret.outcome = "returned" =>
               /\ Len(u_ret.chunks) = Len(u_all_chunks)
               /\ AllEmbedded(u_ret.chunks)

\* C19 witness: process_uploaded_files chunked two files and the backend
\* failed at the second text; the call raised and no chunk has an embedding.
C19_Witness ==
    /\ u_pc = "done"
    /\ Len(files_data) = 2
    /\ Len(u_all_chunks) = 2
    /\ u_env = 2
    /\ u_ret.outcome = "raised"
    /\ NoneEmbedded(u_ret.chunks)

\* The file is one process_uploaded_files passes over.
Skipped(file_data) ==
    \/ \A suffix \in {".js", ".jsx", ".ts", ".tsx"} : ~EndsWith(file_data.name, suffix)
    \/ file_data.content = Undecodable
    \/ \A k \in 1..Len(file_data.content.lines) : Strip(file_data.content.lines[k]) = ""

\* The chunks of a file whose text stays within the default max_chunk_size:
\* one chunk that covers the file.
ChunksOfSmallFile(file_data) ==
    <<[text |-> file_data.content.lines,
       filename |-> file_data.name,
       start_line |-> 1,
       end_line |-> Len(file_data.content.lines),
       language |-> Language(file_data.name),
       type |-> DetectChunkType(file_data.content.lines)]>>

\* The chunks of the files n.. of files_data that are not skipped, in file
\* order.
RECURSIVE ChunksFrom(_)
ChunksFrom(n) ==
    IF n > Len(files_data)
    THEN <<>>
    ELSE (IF Skipped(files_data[n]) THEN <<>> ELSE ChunksOfSmallFile(files_data[n]))
         \o ChunksFrom(n + 1)

WithoutEmbedding(chunk) == [x \in DOMAIN chunk \ {"embedding"} |-> chunk[x]]

\* C21: process_uploaded_files skips a file with an unrecognized extension,
\* undecodable content or blank content without failing the batch; the
\* result is the chunks of the other files in file order, each with an
\* embedding, and when no file yields a chunk the result is empty and the
\* embedding backend is not called.
C21_SkipsBadFiles ==
    (u_pc = "done" /\ u_ret.op = "process_uploaded_files") =>
        LET expected == ChunksFrom(1)
        IN /\ u_all_chunks = expected
           /\ expected = <<>> =>
                 /\ u_ret.outcome = "returned"
                 /\ u_ret.chunks = <<>>
                 /\ ~u_ret.encoded
           /\ (expected # <<>> /\ ~EncodeFails(expected, u_env)) =>
                 /\ u_ret.outcome = "returned"
                 /\ Len(u_ret.chunks) = Len(expected)
                 /\ \A k \in 1..Len(expected) :
                       /\ "embedding" \in DOMAIN u_ret.chunks[k]
                       /\ WithoutEmbedding(u_ret.chunks[k]) = expected[k]

\* C21 witness: the first file does not decode, the second is chunked, and
\* the call returns the embedded chunk of the second file.
C21_Witness ==
    /\ u_pc = "done"
    /\ u_ret.op = "process_uploaded_files"
    /\ Len(files_data) = 2
    /\ files_data[1].content = Undecodable
    /\ ~Skipped(files_data[2])
    /\ u_ret.outcome = "returned"
    /\ Len(u_ret.chunks) = 1
    /\ u_ret.chunks[1].filename = files_data[2].name
    /\ "embedding" \in DOMAIN u_ret.chunks[1]

----------------------------------------------------------------------------
(* Properties of the singletons *)

\* C22: the embedder and the vector store are each constructed at most
\* once, whatever the interleaving of the threads that call the getters, and
\* all callers of a getter receive the same instance.
C22_ConstructedOnce ==
    /\ \A fn \in Getters : g_made[fn] <= 1
    /\ \A t, u \in DOMAIN t_pc :
          (t_fn[t] = t_fn[u] /\ t_pc[t] = "done" /\ t_pc[u] = "done") => t_ret[t] = t_ret[u]

----------------------------------------------------------------------------
(* Properties of the retriever *)

\* The five trigger rules of enhance_query: a rule matches a lowercased query
\* that contains one of its triggers.
EnhanceTriggers ==
    <<{"useeffect"}, {"usestate"}, {"infinite", "loop"}, {"render"},
      {"type", "interface", "generic"}>>

\* The fixed expansions rule n appends for the query q.
Expansions(n, q) ==
    CASE n = 1 -> <<q \o " dependency array", q \o " cleanup function",
                    "useEffect infinite loop">>
      [] n = 2 -> <<q \o " state update", q \o " functional update",
                    "useState asynchronous">>
      [] n = 3 -> <<"useEffect dependency array", "missing dependencies",
                    "useCallback memoization">>
      [] n = 4 -> <<"React.memo optimization", "useMemo performance",
                    "unnecessary re-render">>
      [] n = 5 -> <<q \o " TypeScript", q \o " type definition">>

RuleMatches(n, q) == \E t \in EnhanceTriggers[n] : InStr(t, Lower(q))

\* The expansions of rules n..5 for q, each rule judged on its own.
RECURSIVE ExpansionsFrom(_, _)
ExpansionsFrom(n, q) ==
    IF n > Len(EnhanceTriggers)
    THEN <<>>
    ELSE (IF RuleMatches(n, q) THEN Expansions(n, q) ELSE <<>>) \o ExpansionsFrom(n + 1, q)

Enhanced == r_pc \in {"loop", "done", "formatted"} /\ r_env.store_ok

\* C11: enhance_query(q) returns q unchanged as element 0, followed by the
\* fixed expansions of each matching trigger rule in rule order, each rule
\* independently of the others and with duplicate strings kept; its length
\* is 1 + 3 * (matching rules among the first four) + 2 * (type rule matches).
C11_EnhanceQuery ==
    Enhanced =>
        /\ enhanced_queries[1] = r_query
        /\ enhanced_queries = <<r_query>> \o ExpansionsFrom(1, r_query)
        /\ Len(enhanced_queries)
             = 1 + 3 * Cardinality({n \in 1..4 : RuleMatches(n, r_query)})
                 + 2 * (IF RuleMatches(5, r_query) THEN 1 ELSE 0)

\* C11 witness: all five rules match one query, which gets 15 variants.
C11_Witness ==
    /\ Enhanced
    /\ \A n \in 1..5 : RuleMatches(n, r_query)
    /\ Len(enhanced_queries) = 15

\* The call has ended / has ended by running its try block to the end.
Ended == r_pc \in {"done", "formatted"}
Completed == Ended /\ r_fault \cap {"store", "score"} = {}

\* The hits of the searches issued so far, in variant order then search
\* order.
RECURSIVE HitsFrom(_)
HitsFrom(k) == IF k > Len(r_log) THEN <<>> ELSE r_log[k].hits \o HitsFrom(k + 1)

SameIdentity(a, b) == a.filename = b.filename /\ a.start_line = b.start_line

FirstLike(seq, e) ==
    seq[CHOOSE k \in 1..Len(seq) :
            /\ SameIdentity(seq[k], e)
            /\ \A m \in 1..(k - 1) : ~SameIdentity(seq[m], e)]

\* C12: no two chunks of the result share (filename, start_line), and each
\* chunk of the result is the first copy surfaced with that identity, in
\* variant order then search-result order.
C12_DedupFirstWins ==
    Ended =>
        /\ \A a, b \in 1..Len(r_ret.value) :
               SameIdentity(r_ret.value[a], r_ret.value[b]) => a = b
        /\ \A a \in 1..Len(r_ret.value) :
               LET e == r_ret.value[a]
                   f == FirstLike(HitsFrom(1), e)
               IN /\ \E k \in 1..Len(HitsFrom(1)) : SameIdentity(HitsFrom(1)[k], e)
                  /\ e.distance = f.distance
                  /\ e.text = f.text
                  /\ e.metadata = f.metadata

\* C12 witness: two variants surfaced the same chunk at different distances
\* and the result holds it once, with the distance of the earlier variant.
C12_Witness ==
    /\ Completed
    /\ \E k1, k2 \in 1..Len(r_log) :
          /\ k1 < k2
          /\ \E a \in 1..Len(r_log[k1].hits), b \in 1..Len(r_log[k2].hits) :
                /\ SameIdentity(r_log[k1].hits[a], r_log[k2].hits[b])
                /\ r_log[k1].hits[a].distance # r_log[k2].hits[b].distance
                /\ \A m \in 1..(k1 - 1) : \A c \in 1..Len(r_log[m].hits) :
                       ~SameIdentity(r_log[m].hits[c], r_log[k1].hits[a])
                /\ \E c \in 1..Len(r_ret.value) :
                       /\ SameIdentity(r_ret.value[c], r_log[k1].hits[a])
                       /\ r_ret.value[c].distance = r_log[k1].hits[a].distance

\* a ranks strictly before b: more relevant, or as relevant and nearer.
RanksBefore(a, b) ==
    \/ a.relevance_score > b.relevance_score
    \/ a.relevance_score = b.relevance_score /\ a.distance < b.distance

\* C13: the result is ordered by relevance_score descending, then distance
\* ascending; it has at most max_chunks elements and is the first max_chunks
\* of the deduplicated candidates in that order.
C13_RankedAndTruncated ==
    Completed =>
        LET v == r_ret.value
            left == {k \in 1..Len(all_chunks) :
                        \A a \in 1..Len(v) : v[a] # all_chunks[k]}
        IN /\ \A a, b \in 1..Len(v) : a < b => ~RanksBefore(v[b], v[a])
           /\ Len(v) <= r_max
           /\ Len(v) = IF Len(all_chunks) < r_max THEN Len(all_chunks) ELSE r_max
           /\ \A a \in 1..Len(v) : \E k \in 1..Len(all_chunks) : all_chunks[k] = v[a]
           /\ \A k \in left : \A a \in 1..Len(v) : ~RanksBefore(all_chunks[k], v[a])

\* C13 witness: of two equally relevant candidates the one found later is
\* nearer; it is returned and the other is cut off by max_chunks = 1.
C13_Witness ==
    /\ Completed
    /\ r_max = 1
    /\ Len(all_chunks) = 2
    /\ all_chunks[1].relevance_score = all_chunks[2].relevance_score
    /\ all_chunks[2].distance < all_chunks[1].distance
    /\ r_ret.value = <<all_chunks[2]>>

\* The code of a stored document: the document without its filename line.
CodeOf(document) == Tail(document)

HasHookCode(document) == Contains("useeffect", CodeOf(document))

\* The code holds none of the words of the query.
Unrelated(document, query) ==
    LET words == Split(Lower(query))
    IN \A k \in 1..Len(words) : ~Contains(words[k], CodeOf(document))

\* The session searched holds exactly one chunk with useEffect in its code
\* and one chunk of unrelated code, and the query is the one of the scenario.
HookScenario ==
    /\ r_query = "why does useEffect cause infinite loop"
    /\ LET recs == InSession(collection, r_session)
       IN /\ Len(recs) = 2
          /\ \E h, u \in 1..2 :
                /\ h # u
                /\ HasHookCode(recs[h].document)
                /\ Unrelated(recs[u].document, r_query)

\* C14: in the scenario the useEffect chunk scores strictly more than the
\* unrelated chunk and is first in the result, whatever the distances.
C14_HookChunkRanksFirst ==
    (Completed /\ r_fault = {} /\ HookScenario) =>
        /\ r_ret.value # <<>>
        /\ HasHookCode(r_ret.value[1].text)
        /\ \A a, b \in 1..Len(all_chunks) :
               (HasHookCode(all_chunks[a].text) /\ Unrelated(all_chunks[b].text, r_query))
                   => all_chunks[a].relevance_score > all_chunks[b].relevance_score

AllVariantsEmpty == \A k \in 1..Len(r_log) : r_log[k].hits = <<>>

\* C15: when every variant yields zero chunks the call returns an empty
\* sequence without raising, and format_context_for_ai of an empty sequence
\* is the marker "No relevant code found.", never an empty string.
C15_EmptyIsNotAnError ==
    /\ (Ended /\ AllVariantsEmpty) => r_ret = [outcome |-> "returned", value |-> <<>>]
    /\ (r_pc = "formatted" /\ r_ret.value = <<>>) =>
           /\ context = <<"No relevant code found.">>
           /\ context \notin {<<>>, <<"">>}

\* C15 witness: the session searched holds no chunk; three variants were
\* searched without failure, none found a chunk, and the marker was produced.
C15_Witness ==
    /\ r_pc = "formatted"
    /\ r_fault = {}
    /\ InSession(collection, r_session) = <<>>
    /\ Len(r_log) = 3
    /\ AllVariantsEmpty
    /\ r_ret = [outcome |-> "returned", value |-> <<>>]
    /\ context = <<"No relevant code found.">>

\* C16: a search that fails for one variant makes that variant contribute
\* zero chunks and nothing else: every variant of the first three is still
\* searched, and the chunks the other searches found are deduplicated,
\* scored, ranked and returned.
C16_FailedSearchSkipsVariant ==
    (Ended /\ "store" \notin r_fault /\ "score" \notin r_fault) =>
        /\ Len(r_log) = Len(FirstN(enhanced_queries, 3))
        /\ \A k \in 1..Len(r_log) :
              /\ r_log[k].query = enhanced_queries[k]
              /\ r_log[k].failed => r_log[k].hits = <<>>
              /\ ~r_log[k].failed =>
                    \A a \in 1..Len(r_log[k].hits) :
                       \E c \in 1..Len(all_chunks) :
                          /\ SameIdentity(all_chunks[c], r_log[k].hits[a])
                          /\ all_chunks[c].relevance_score
                               = CalculateRelevance(r_query, all_chunks[c])
        /\ r_ret.outcome = "returned"
        /\ Len(r_ret.value) = IF Len(all_chunks) < r_max THEN Len(all_chunks) ELSE r_max
        /\ \A a \in 1..Len(r_ret.value) :
              \E c \in 1..Len(all_chunks) : all_chunks[c] = r_ret.value[a]

\* C16 witness: the search of the first variant failed, a later search found
\* a chunk, and that chunk was returned.
C16_Witness ==
    /\ Ended
    /\ r_fault = {"search"}
    /\ r_env.embedder_ok
    /\ Len(r_log) = 3
    /\ r_log[1].failed
    /\ ~r_log[2].failed
    /\ r_log[2].hits # <<>>
    /\ r_ret.outcome = "returned"
    /\ \E a \in 1..Len(r_ret.value) : SameIdentity(r_ret.value[a], r_log[2].hits[1])

\* C17: a scoring failure for a chunk of one variant makes that variant
\* contribute zero chunks and nothing else: the later variants are still
\* searched and the chunks collected from the other variants are returned.
C17_FailedScoringSkipsVariant ==
    (Ended /\ "score" \in r_fault /\ "store" \notin r_fault) =>
        /\ Len(r_log) = Len(FirstN(enhanced_queries, 3))
        /\ r_ret.outcome = "returned"
        /\ Len(r_ret.value) = IF Len(all_chunks) < r_max THEN Len(all_chunks) ELSE r_max
        /\ \A a \in 1..Len(r_ret.value) :
              \E c \in 1..Len(all_chunks) : all_chunks[c] = r_ret.value[a]

\* C18: when the vector store or the embedding model cannot be obtained
\* during the call, the call ends in an error, not in a normal result.
C18_WiderFailurePropagates ==
    (Ended /\ ("store" \in r_fault \/ ~r_env.embedder_ok)) => r_ret.outcome = "raised"

\* C27: a call that obtained the vector store issues exactly
\* min(3, number of variants) searches, for variants 0, 1 and 2 of
\* enhance_query in that order, each with the caller's session_id and with
\* top_k equal to max_chunks; no variant beyond the third is searched.
C27_SearchesFirstThree ==
    (Ended /\ "store" \notin r_fault) =>
        /\ Len(r_log) = IF Len(enhanced_queries) < 3 THEN Len(enhanced_queries) ELSE 3
        /\ \A k \in 1..Len(r_log) :
              /\ r_log[k].query = enhanced_queries[k]
              /\ r_log[k].session_id = r_session
              /\ r_log[k].top_k = r_max

\* The hit as the chunk that was uploaded: its text without the filename
\* line that store_chunks put in front of it.
AsUploaded(chunk) == [chunk EXCEPT !.text = CodeOf(@)]

\* C28: the relevance_score of every collected chunk is the score of the
\* query against the chunk's own text and type tag: words of the query, the
\* useeffect, usestate and infinite bonuses and the type-tag affinity are
\* looked up in the chunk text only, and the filename contributes nothing.
C28_ScoreFromChunkTextOnly ==
    \A c \in 1..Len(all_chunks) :
        all_chunks[c].relevance_score = CalculateRelevance(r_query, AsUploaded(all_chunks[c]))

\* The variants (indices of r_log) whose search surfaced the identity of e,
\* and the distance that the search of variant k reported for it.
SurfacedBy(e) ==
    {k \in 1..Len(r_log) : \E a \in 1..Len(r_log[k].hits) : SameIdentity(r_log[k].hits[a], e)}
DistanceIn(k, e) ==
    LET a == CHOOSE a \in 1..Len(r_log[k].hits) : SameIdentity(r_log[k].hits[a], e)
    IN r_log[k].hits[a].distance
FirstVariant(e) == CHOOSE k \in SurfacedBy(e) : \A m \in SurfacedBy(e) : k <= m

\* C29: the distance of a returned chunk is the distance reported by the
\* first variant whose search surfaced it, whatever later variants
\* reported, and two returned chunks of equal relevance_score are ordered by
\* these first-variant distances.
C29_DistanceOfFirstVariant ==
    Completed =>
        /\ \A c \in 1..Len(r_ret.value) :
               /\ SurfacedBy(r_ret.value[c]) # {}
               /\ r_ret.value[c].distance
                     = DistanceIn(FirstVariant(r_ret.value[c]), r_ret.value[c])
        /\ \A c, d \in 1..Len(r_ret.value) :
               (c < d /\ r_ret.value[c].relevance_score = r_ret.value[d].relevance_score)
                   => DistanceIn(FirstVariant(r_ret.value[c]), r_ret.value[c])
                        <= DistanceIn(FirstVariant(r_ret.value[d]), r_ret.value[d])

\* C29 witness: a returned chunk was surfaced by a later variant at a
\* strictly smaller distance than by its first variant, and carries the
\* first variant's distance.
C29_Witness ==
    /\ Completed
    /\ \E c \in 1..Len(r_ret.value) :
          LET e == r_ret.value[c]
          IN /\ SurfacedBy(e) # {}
             /\ \E m \in SurfacedBy(e) : DistanceIn(m, e) < DistanceIn(FirstVariant(e), e)
             /\ e.distance = DistanceIn(FirstVariant(e), e)

\* The sessions that exist in a collection: the session ids of its records.
SessionsOf(coll) == {coll[k].metadata.session_id : k \in 1..Len(coll)}

RecordFields == {"id", "document", "embedding", "metadata"}
MetadataFields == {"filename", "start_line", "end_line", "language", "type", "session_id"}

\* C23: retrieve_relevant_chunks, search_similar_chunks, get_session_stats
\* and format_context_for_ai leave the persisted records and all their
\* fields unchanged, whether they succeed or fail; no persisted record
\* carries a relevance_score or a distance.
C23_NoMutationBackPath ==
    /\ [][collection' = collection]_vars
    /\ [](\A j \in 1..Len(collection) :
             /\ DOMAIN collection[j] = RecordFields
             /\ DOMAIN collection[j].metadata = MetadataFields)

\* C23 witness: a retrieval has returned scored chunks and a direct search
\* has returned hits with distances, and the records of the chunks returned
\* are in the store with the embedding they were stored with.
C23_Witness ==
    /\ r_pc = "formatted"
    /\ r_ret.value # <<>>
    /\ r_ret.value[1].relevance_score > 0
    /\ result.op = "search"
    /\ result.ret # <<>>
    /\ result.ret[1].distance > 0
    /\ \E j \in 1..Len(collection) :
          /\ collection[j].document = result.ret[1].text
          /\ collection[j].metadata = result.ret[1].metadata
          /\ collection[j].embedding \in {c.embedding : c \in RetrievePool}

----------------------------------------------------------------------------
(* Properties of the chunker *)

Covered(j) == {k \in 1..Len(chunks) : chunks[k].start_line <= j /\ j <= chunks[k].end_line}

NonBlankLine(j) == Strip(lines[j]) # ""

\* C6: every chunk emitted by smart_chunk_code has
\* 1 <= start_line <= end_line <= number of input lines, and its text is not
\* empty or whitespace-only.
C6_ChunkRangeAndText ==
    \A k \in 1..Len(chunks) :
        /\ 1 <= chunks[k].start_line
        /\ chunks[k].start_line <= chunks[k].end_line
        /\ chunks[k].end_line <= Len(lines)
        /\ \E j \in 1..Len(chunks[k].text) : Strip(chunks[k].text[j]) # ""

\* C6 witness: a finished call that discarded a whitespace-only buffer and
\* emitted chunks before and after it.
C6_Witness ==
    /\ pc = "done"
    /\ Len(chunks) >= 2
    /\ \E j \in 1..Len(lines) : Covered(j) = {}

\* C7 as stated: the chunk ranges, in emission order, are a gapless
\* non-overlapping cover of the input: the first starts at line 1, each next
\* starts at the previous end_line + 1, the last ends at the last line.
C7_GaplessCover ==
    pc = "done" =>
        /\ Len(chunks) >= 1
        /\ chunks[1].start_line = 1
        /\ \A k \in 1..(Len(chunks) - 1) : chunks[k + 1].start_line = chunks[k].end_line + 1
        /\ chunks[Len(chunks)].end_line = Len(lines)

\* C7 amended: the chunk ranges, in emission order, are pairwise
\* non-overlapping and increasing, every non-blank input line belongs to
\* exactly one chunk, and a line that belongs to no chunk is whitespace-only.
C7_CoverOfNonBlankLines ==
    pc = "done" =>
        /\ \A k \in 1..(Len(chunks) - 1) : chunks[k + 1].start_line > chunks[k].end_line
        /\ \A j \in 1..Len(lines) :
              /\ Cardinality(Covered(j)) <= 1
              /\ NonBlankLine(j) => Cardinality(Covered(j)) = 1

\* C7 witness: a finished call with a chunk, a discarded whitespace-only
\* line before it, and a non-blank line after the gap.
C7_Witness ==
    /\ pc = "done"
    /\ Len(chunks) >= 1
    /\ chunks[1].start_line > 1
    /\ \E j \in 1..Len(lines) : Covered(j) = {} /\ Len(lines[j]) > 0

\* A step that handles input line i + 1 (0-based index i), and the step
\* after the last line.
LineStep == pc = "loop" /\ i < Len(lines) /\ i' = i + 1
FinalStep == pc = "loop" /\ pc' = "done"

\* The buffer is non-empty and the counter plus the length of the line
\* handled exceeds max_chunk_size.
WouldExceed == current_chunk # <<>> /\ current_size + Len(lines[i + 1]) > max_chunk_size

\* The step flushed: a non-empty buffer was replaced by the line handled.
Flushed == current_chunk # <<>> /\ current_chunk' = <<lines[i + 1]>>

\* The step appended one chunk, made of the buffer, that ends at line `end`.
AppendedBuffer(end) ==
    /\ Len(chunks') = Len(chunks) + 1
    /\ SubSeq(chunks', 1, Len(chunks)) = chunks
    /\ chunks'[Len(chunks')].text = current_chunk
    /\ chunks'[Len(chunks')].start_line = end - Len(current_chunk) + 1
    /\ chunks'[Len(chunks')].end_line = end

\* C25 as stated: a flush happens at a line exactly when the buffer is
\* non-empty and counter + line length > max_chunk_size; the flushed chunk
\* covers the first buffered line through the line before, the buffer
\* restarts with the line alone, and what remains at the end of input is
\* flushed as the final chunk, ending at the last line.
C25_FlushRule ==
    [][/\ LineStep =>
            /\ Flushed <=> WouldExceed
            /\ WouldExceed => AppendedBuffer(i)
            /\ ~WouldExceed =>
                  (chunks' = chunks /\ current_chunk' = Append(current_chunk, lines[i + 1]))
       /\ (FinalStep /\ current_chunk # <<>>) => AppendedBuffer(Len(lines))]_vars

\* C25 amended: as stated, except that a flushed buffer whose text is
\* whitespace-only is discarded and makes no chunk, during the loop and at
\* the end of input.
C25_FlushRuleNonBlank ==
    [][/\ LineStep =>
            /\ Flushed <=> WouldExceed
            /\ (WouldExceed /\ ~IsBlankText(current_chunk)) => AppendedBuffer(i)
            /\ (WouldExceed /\ IsBlankText(current_chunk)) => chunks' = chunks
            /\ ~WouldExceed =>
                  (chunks' = chunks /\ current_chunk' = Append(current_chunk, lines[i + 1]))
       /\ FinalStep =>
            /\ (current_chunk # <<>> /\ ~IsBlankText(current_chunk))
                  => AppendedBuffer(Len(lines))
            /\ (current_chunk = <<>> \/ IsBlankText(current_chunk)) => chunks' = chunks]_vars

\* C25 witness: a finished call in which a buffer of two lines was flushed
\* when the next line would have exceeded the limit, a whitespace-only
\* buffer was discarded, and the final chunk ends at the last line.
C25_Witness ==
    /\ pc = "done"
    /\ Len(chunks) >= 2
    /\ chunks[1].end_line - chunks[1].start_line = 1
    /\ chunks[1].end_line < Len(lines)
    /\ \E j \in 1..Len(lines) : Covered(j) = {}
    /\ chunks[Len(chunks)].end_line = Len(lines)

\* C26 as stated: the boundary check compares only the size accumulated
\* before the new line with max_chunk_size; the length of the new line is
\* not part of the comparison.
C26_CheckIgnoresNewLine ==
    [][LineStep => (Flushed <=> (current_chunk # <<>> /\ current_size > max_chunk_size))]_vars

RECURSIVE SumLen(_)
SumLen(text) == IF text = <<>> THEN 0 ELSE Len(Head(text)) + SumLen(Tail(text))

\* C26 amended: the check compares the accumulated size plus the length of
\* the new line with max_chunk_size, so the summed line length of a chunk of
\* two or more lines never exceeds max_chunk_size; only a chunk of one line
\* can exceed it.
C26_MultiLineChunkFits ==
    \A k \in 1..Len(chunks) :
        Len(chunks[k].text) >= 2 => SumLen(chunks[k].text) <= max_chunk_size

\* C26 witness: a chunk of two lines that fills max_chunk_size exactly,
\* followed by a chunk of one line that is longer than max_chunk_size.
C26_Witness ==
    /\ pc = "done"
    /\ \E k \in 1..Len(chunks) :
          Len(chunks[k].text) = 2 /\ SumLen(chunks[k].text) = max_chunk_size
    /\ \E k \in 1..Len(chunks) :
          Len(chunks[k].text) = 1 /\ SumLen(chunks[k].text) > max_chunk_size

\* C8: in the 40-line scenario the result holds a chunk covering exactly
\* lines 1-15 and a chunk covering exactly lines 16-25.
C8_BlockChunks ==
    pc = "done" =>
        /\ \E k \in 1..Len(chunks) : chunks[k].start_line = 1 /\ chunks[k].end_line = 15
        /\ \E k \in 1..Len(chunks) : chunks[k].start_line = 16 /\ chunks[k].end_line = 25

\* C9: a non-blank input line longer than max_chunk_size is emitted as a
\* chunk of its own: exactly one chunk covers it, that chunk covers no other
\* line and its text is the whole line.
C9_OversizedLineAlone ==
    pc = "done" =>
        \A j \in 1..Len(lines) :
            (NonBlankLine(j) /\ Len(lines[j]) > max_chunk_size) =>
                /\ Cardinality(Covered(j)) = 1
                /\ \A k \in Covered(j) :
                      /\ chunks[k].start_line = j
                      /\ chunks[k].end_line = j
                      /\ chunks[k].text = <<lines[j]>>

\* C9 witness: an oversized non-blank line between two non-blank lines that
\* would fit a chunk, all three emitted.
C9_Witness ==
    /\ pc = "done"
    /\ \E j \in 2..(Len(lines) - 1) :
          /\ NonBlankLine(j) /\ Len(lines[j]) > max_chunk_size
          /\ NonBlankLine(j - 1) /\ Len(lines[j - 1]) <= max_chunk_size
          /\ NonBlankLine(j + 1) /\ Len(lines[j + 1]) <= max_chunk_size
          /\ \E k \in 1..Len(chunks) : chunks[k].text = <<lines[j]>>

----------------------------------------------------------------------------
(* Properties of type detection *)

\* The priority table of the chunk types: a rule matches a set of substring
\* facts when one of its alternatives is contained in it.
TypeRules ==
    <<[type |-> "react_hook", any |-> {{"useeffect"}, {"usestate"}}],
      [type |-> "react_component", any |-> {{"function", "component"}}],
      [type |-> "class_component", any |-> {{"class", "extends"}}],
      [type |-> "typescript_definition", any |-> {{"interface"}, {"type"}}],
      [type |-> "module_export", any |-> {{"export"}}],
      [type |-> "import_statement", any |-> {{"import"}}],
      [type |-> "code_block", any |-> {{}}]>>

Facts(text) == {kw \in Keywords : Contains(kw, text)}

MatchingRules(facts) == {r \in 1..Len(TypeRules) : \E alt \in TypeRules[r].any : alt \subseteq facts}

EarliestRule(facts) == CHOOSE r \in MatchingRules(facts) : \A q \in MatchingRules(facts) : r <= q

\* C10: the chunk type is the type of the earliest rule of the priority
\* table that matches the substring facts of the lowercased text.
C10_EarliestRuleWins ==
    chunk_type # "none" => chunk_type = TypeRules[EarliestRule(Facts(code))].type

\* C10 witness: a text matching the type, export and import rules but no
\* earlier one is typed typescript_definition.
C10_Witness ==
    /\ chunk_type = "typescript_definition"
    /\ {"type", "export", "import"} \subseteq Facts(code)
    /\ Facts(code) \cap {"useeffect", "usestate", "interface"} = {}

====
